---- MODULE Spec2Model ----
(***************************************************************************)
(* Model of gplugins.klayout.plot_nets.plot_nets: the graph returned by    *)
(* networkx_from_file, the reduction loop over degree-2 nodes whose label  *)
(* contains one of the substrings of nodes_to_reduce, and the choice       *)
(* between the interactive (pyvis) and the static (matplotlib) renderer.   *)
(*                                                                         *)
(* A graph object is a record [nodes, edges]: nodes is the sequence of     *)
(* node labels in the iteration order of the networkx node dictionary,     *)
(* edges is the set of two-element sets of labels (nx.Graph keeps at most  *)
(* one edge per unordered pair).  A label is a sequence of characters so   *)
(* that the Python "in" test on strings is computed, not assumed.          *)
(* Graph objects live in heap; G_connectivity and G_connectivity_tmp are   *)
(* references into it, so that aliasing and copying are distinguishable.   *)
(***************************************************************************)
EXTENDS Integers, Sequences, FiniteSets, TLC

\* ------------------------------------------------------------------ bounds
\* Number of nodes of the graph returned by the graph builder.
NumNodes == 4

\* Largest number of edges of the graph returned by the graph builder.
MaxEdges == 4

\* ------------------------------------------------------------------ inputs
\* Labels the graph builder gives to its nodes; the first NumNodes are used.
NodeLabels ==
    << <<"A">>, <<"w", "x">>, <<"w", "y">>, <<"B">>, <<"w", "z">>, <<"C">> >>

Labels == { NodeLabels[i] : i \in 1..NumNodes }

\* Values of the nodes_to_reduce argument: None, or a collection of strings.
\* "" (the empty string) is contained in every label.
None == [none |-> TRUE, items |-> {}]

Collection(s) == [none |-> FALSE, items |-> s]

ReduceArgs ==
    { None,
      Collection({}),
      Collection({ <<"w">> }),
      Collection({ <<"w", "x">>, <<"B">> }),
      Collection({ <<>> }) }

\* Permutations of a finite set, as sequences.
RECURSIVE Perms(_)
Perms(S) ==
    IF S = {} THEN { <<>> }
    ELSE UNION { { <<x>> \o p : p \in Perms(S \ {x}) } : x \in S }

AllPairs == { e \in SUBSET Labels : Cardinality(e) = 2 }

\* The graphs networkx_from_file can return over Labels: simple, undirected.
BuilderGraphs ==
    { [nodes |-> p, edges |-> E] :
        p \in Perms(Labels),
        E \in { F \in SUBSET AllPairs : Cardinality(F) <= MaxEdges } }

\* ------------------------------------------------------- graph operations
Range(s) == { s[i] : i \in 1..Len(s) }

\* Mutant: the label is compared for equality (node == e) instead of "in".
ContainsEqual(node, e) == node = e

\* str.__contains__: e in node
Contains(node, e) ==
    \E i \in 0..(Len(node) - Len(e)) : SubSeq(node, i + 1, i + Len(e)) = e

\* G.degree[node]
Degree(g, n) == Cardinality({ e \in g.edges : n \in e })

\* Mutant: e[0] is taken from each edge of G.edges(node), the node itself.
NeighborsFirstEnd(g, n) == { m \in Range(g.nodes) : m = n /\ Degree(g, n) > 0 }

\* G.edges(node) -> [e[1] for e in ...]: the neighbours of node
Neighbors(g, n) == { m \in Range(g.nodes) : {n, m} \in g.edges /\ m # n }

\* Mutant: combinations(connected_to_node, r=3)
Combinations3(S) == { p \in SUBSET S : Cardinality(p) = 3 }

\* list(combinations(connected_to_node, r=2))
Combinations2(S) == { p \in SUBSET S : Cardinality(p) = 2 }

\* Mutant: the edges are not added.
AddNoEdges(g, pairs) == g

\* G.add_edge(u, v) for every pair
AddEdges(g, pairs) == [g EXCEPT !.edges = @ \cup pairs]

\* Mutant: only the edges of the node are removed, the node stays.
RemoveEdgesOnly(g, n) ==
    [nodes |-> g.nodes, edges |-> { e \in g.edges : n \notin e }]

\* G.remove_node(n): the node and its incident edges go, the order stays
RemoveNode(g, n) ==
    [nodes |-> SelectSeq(g.nodes, LAMBDA m : m # n),
     edges |-> { e \in g.edges : n \notin e }]

VARIABLES
    built,               \* the graph networkx_from_file returned, as returned
    heap,                \* sequence of graph objects; heap[1] is the builder's
    G_connectivity,      \* reference (index into heap)
    G_connectivity_tmp,  \* reference, 0 while unbound
    node,                \* loop variable of the for loop, <<>> while unbound
    nodes_to_reduce,     \* argument
    interactive,         \* argument
    pc,                  \* position in plot_nets
    iterations,          \* completed iterations of the while loop
    import_result,       \* outcome of "from pyvis.network import Network"
    raised,              \* exception leaving plot_nets, type "" while none
    shown                \* what was rendered: [how, graph]

vars == << built, heap, G_connectivity, G_connectivity_tmp, node, nodes_to_reduce,
           interactive, pc, iterations, import_result, raised, shown >>

NoException == [type |-> "", msg |-> "", cause |-> ""]

NotShown == [how |-> "", graph |-> 0]

InstallHint == "You need to pip install pyvis<=0.3.1 or gplugins[klayout]"

\* Mutant: no except clause, the import error leaves plot_nets as it is.
NoExceptClause(err) == [type |-> err, msg |-> "", cause |-> ""]

\* except ModuleNotFoundError as e: raise UserWarning(...) from e
\* Any other import error leaves the try statement as it is.
ExceptClause(err) ==
    IF err = "ModuleNotFoundError"
    THEN [type |-> "UserWarning", msg |-> InstallHint, cause |-> err]
    ELSE [type |-> err, msg |-> "", cause |-> ""]

\* Mutant: the test of line 36 is missing.
AlwaysTruthy(x) == TRUE

\* if nodes_to_reduce:
Truthy(x) == ~x.none /\ x.items # {}

\* Mutant: the label is not looked at.
_removal_condition_degree_only(n, degree) == degree = 2

\* _removal_condition(node, degree)
_removal_condition(n, degree) ==
    degree = 2 /\ \E e \in nodes_to_reduce.items : Contains(n, e)

\* Iterating None inside any(...) raises TypeError; "and" short-circuits.
_removal_raises(n, degree) == degree = 2 /\ nodes_to_reduce.none

\* Mutant: "if" instead of "while", the body runs at most once.
IfCondition(g) ==
    /\ iterations = 0
    /\ \E i \in 1..Len(g.nodes) :
           _removal_condition(g.nodes[i], Degree(g, g.nodes[i]))

\* any(_removal_condition(node, degree) for node, degree in G.degree)
WhileCondition(g) ==
    \E i \in 1..Len(g.nodes) : _removal_condition(g.nodes[i], Degree(g, g.nodes[i]))

WhileRaises(g) ==
    \E i \in 1..Len(g.nodes) : _removal_raises(g.nodes[i], Degree(g, g.nodes[i]))

\* for node, degree in G.degree: if _removal_condition(...): ...; break
FirstRemovable(g) ==
    LET I == { i \in 1..Len(g.nodes) :
                 _removal_condition(g.nodes[i], Degree(g, g.nodes[i])) }
    IN  g.nodes[CHOOSE i \in I : \A j \in I : i <= j]

\* One pass of the loop body, lines 44-53, on a graph value
Iteration(g) ==
    LET n == FirstRemovable(g)
    IN  RemoveNode(AddEdges(g, Combinations2(Neighbors(g, n))), n)

\* The reduction phase, lines 41-53, on a graph value
RECURSIVE Reducer(_)
Reducer(g) == IF WhileCondition(g) THEN Reducer(Iteration(g)) ELSE g

\* Mutant: G_connectivity_tmp = G_connectivity, no copy.
AliasGraph(h, ref) == << h, ref >>

\* G.copy(): a new object with the same nodes and edges
CopyGraph(h, ref) == << Append(h, h[ref]), Len(h) + 1 >>

Init ==
    /\ built \in BuilderGraphs
    /\ heap = << built >>
    /\ G_connectivity = 1
    /\ G_connectivity_tmp = 0
    /\ node = <<>>
    /\ nodes_to_reduce \in ReduceArgs
    /\ interactive \in BOOLEAN
    /\ pc = "if_reduce"
    /\ iterations = 0
    /\ import_result = ""
    /\ raised = NoException
    /\ shown = NotShown

\* line 36, falsy: the reduction phase is skipped
SkipReduction ==
    /\ pc = "if_reduce"
    /\ ~Truthy(nodes_to_reduce)
    /\ pc' = "plot"
    /\ UNCHANGED << built, heap, G_connectivity, G_connectivity_tmp, node,
                    nodes_to_reduce, interactive, iterations, import_result,
                    raised, shown >>

\* line 36, truthy
EnterReduction ==
    /\ pc = "if_reduce"
    /\ Truthy(nodes_to_reduce)
    /\ pc' = "while"
    /\ UNCHANGED << built, heap, G_connectivity, G_connectivity_tmp, node,
                    nodes_to_reduce, interactive, iterations, import_result,
                    raised, shown >>

\* lines 41-43, condition false: the loop is left
WhileExit ==
    /\ pc = "while"
    /\ ~WhileCondition(heap[G_connectivity])
    /\ IF WhileRaises(heap[G_connectivity])
       THEN /\ pc' = "raised"
            /\ raised' = [type |-> "TypeError",
                          msg |-> "NoneType object is not iterable",
                          cause |-> ""]
       ELSE /\ pc' = "plot"
            /\ raised' = raised
    /\ UNCHANGED << built, heap, G_connectivity, G_connectivity_tmp, node,
                    nodes_to_reduce, interactive, iterations, import_result,
                    shown >>

\* lines 41-44, condition true: G_connectivity_tmp = G_connectivity.copy()
WhileCopy ==
    /\ pc = "while"
    /\ WhileCondition(heap[G_connectivity])
    /\ heap' = CopyGraph(heap, G_connectivity)[1]
    /\ G_connectivity_tmp' = CopyGraph(heap, G_connectivity)[2]
    /\ pc' = "for"
    /\ UNCHANGED << built, G_connectivity, node, nodes_to_reduce, interactive,
                    iterations, import_result, raised, shown >>

\* lines 45-50: the scan stops at the first removable node, whose pairs of
\* neighbours are connected in the copy
ScanAddEdges ==
    /\ pc = "for"
    /\ LET g == heap[G_connectivity]
           n == FirstRemovable(g)
       IN  /\ node' = n
           /\ heap' = [heap EXCEPT ![G_connectivity_tmp] =
                         AddEdges(@, Combinations2(Neighbors(g, n)))]
    /\ pc' = "remove"
    /\ UNCHANGED << built, G_connectivity, G_connectivity_tmp, nodes_to_reduce,
                    interactive, iterations, import_result, raised, shown >>

\* lines 51-52: G_connectivity_tmp.remove_node(node); break
ScanRemoveNode ==
    /\ pc = "remove"
    /\ heap' = [heap EXCEPT ![G_connectivity_tmp] = RemoveNode(@, node)]
    /\ pc' = "assign"
    /\ UNCHANGED << built, G_connectivity, G_connectivity_tmp, node, nodes_to_reduce,
                    interactive, iterations, import_result, raised, shown >>

\* line 53: G_connectivity = G_connectivity_tmp
Assign ==
    /\ pc = "assign"
    /\ G_connectivity' = G_connectivity_tmp
    /\ iterations' = iterations + 1
    /\ pc' = "while"
    /\ UNCHANGED << built, heap, G_connectivity_tmp, node, nodes_to_reduce,
                    interactive, import_result, raised, shown >>

\* lines 56-58: from pyvis.network import Network
TryImport ==
    /\ pc = "plot"
    /\ interactive
    /\ import_result' \in { "ok", "ModuleNotFoundError", "ImportError" }
    /\ pc' = "imported"
    /\ UNCHANGED << built, heap, G_connectivity, G_connectivity_tmp, node,
                    nodes_to_reduce, interactive, iterations, raised, shown >>

\* lines 59-62: only ModuleNotFoundError is translated
ImportFailed ==
    /\ pc = "imported"
    /\ import_result # "ok"
    /\ raised' = ExceptClause(import_result)
    /\ pc' = "raised"
    /\ UNCHANGED << built, heap, G_connectivity, G_connectivity_tmp, node,
                    nodes_to_reduce, interactive, iterations, import_result,
                    shown >>

\* lines 64-70: net.from_nx(G_connectivity); net.show("connectivity.html")
ShowInteractive ==
    /\ pc = "imported"
    /\ import_result = "ok"
    /\ shown' = [how |-> "connectivity.html", graph |-> G_connectivity]
    /\ pc' = "done"
    /\ UNCHANGED << built, heap, G_connectivity, G_connectivity_tmp, node,
                    nodes_to_reduce, interactive, iterations, import_result,
                    raised >>

\* lines 71-81: nx.draw(G_connectivity, ...); plt.show()
ShowStatic ==
    /\ pc = "plot"
    /\ ~interactive
    /\ shown' = [how |-> "figure", graph |-> G_connectivity]
    /\ pc' = "done"
    /\ UNCHANGED << built, heap, G_connectivity, G_connectivity_tmp, node,
                    nodes_to_reduce, interactive, iterations, import_result,
                    raised >>

Next ==
    \/ SkipReduction
    \/ EnterReduction
    \/ WhileExit
    \/ WhileCopy
    \/ ScanAddEdges
    \/ ScanRemoveNode
    \/ Assign
    \/ TryImport
    \/ ImportFailed
    \/ ShowInteractive
    \/ ShowStatic

Spec == Init /\ [][Next]_vars

\* The reduction phase alone (lines 34-53) with a non-empty nodes_to_reduce:
\* the call stops before line 56, which is the first to read interactive.
InitReduce == Init /\ Truthy(nodes_to_reduce) /\ ~interactive

NextReduce ==
    \/ EnterReduction
    \/ WhileExit
    \/ WhileCopy
    \/ ScanAddEdges
    \/ ScanRemoveNode
    \/ Assign

ReduceSpec == InitReduce /\ [][NextReduce]_vars

\* --------------------------------------------------------------- properties
\* Positions after the reduction phase.
AfterLoop == { "plot", "imported", "done" }

\* The label contains one of the substrings of nodes_to_reduce.
Matches(n) == \E e \in nodes_to_reduce.items : Contains(n, e)

NodeSet(g) == Range(g.nodes)

Current == heap[G_connectivity]

\* Nodes joined to a node of S by a path of g.
RECURSIVE Reachable(_, _)
Reachable(g, S) ==
    LET T == S \cup UNION { e \in g.edges : e \cap S # {} }
    IN  IF T = S THEN S ELSE Reachable(g, T)

Connected(g, u, v) == v \in Reachable(g, {u})

\* C1 as claimed: after the reduction, every node of the input graph whose
\* label contains none of the substrings, or whose degree in the input graph
\* is not 2, is still present.
C1_InputDegreeSurvives ==
    (pc \in AfterLoop /\ Truthy(nodes_to_reduce)) =>
        \A n \in NodeSet(built) :
            (~Matches(n) \/ Degree(built, n) # 2) => n \in NodeSet(Current)

\* C1 amended: a node leaves the graph in an iteration only if, in the graph
\* scanned by that iteration, its degree is 2 and its label contains one of
\* the substrings; so a node whose label contains none of the substrings is
\* present in every later graph.  The degree is the one at the time of the
\* scan, not the one in the input graph.
C1_NonReduction ==
    /\ \A i \in 1..(Len(heap) - 1) :
           \A n \in NodeSet(heap[i]) \ NodeSet(heap[i + 1]) :
               Matches(n) /\ Degree(heap[i], n) = 2
    /\ \A i \in 1..Len(heap) :
           \A n \in NodeSet(built) : ~Matches(n) => n \in NodeSet(heap[i])

C1_Witness ==
    /\ pc = "plot"
    /\ iterations >= 1
    /\ \E n \in NodeSet(built) :
           ~Matches(n) /\ Degree(built, n) = 2 /\ n \in NodeSet(Current)
    /\ \E n \in NodeSet(built) \ NodeSet(Current) : Degree(built, n) # 2

\* C2: every completed iteration has removed exactly one node and added
\* none, so the loop has run at most (number of input nodes) iterations.
C2_Termination ==
    /\ iterations <= Len(built.nodes)
    /\ Len(Current.nodes) = Len(built.nodes) - iterations
    /\ NodeSet(Current) \subseteq NodeSet(built)
    /\ pc = "assign" =>
           Len(heap[G_connectivity_tmp].nodes) = Len(Current.nodes) - 1

C2_Witness == pc = "plot" /\ iterations >= 2

\* C3: the graph produced by an iteration that selected node n with
\* neighbours a and b lacks n, has the edge a-b exactly once (the number of
\* edges drops by 2 when a and b were adjacent and by 1 otherwise), and keeps
\* every edge of the scanned graph that is not incident to n.
C3_Rewiring ==
    pc = "assign" =>
        LET prev == Current
            new == heap[G_connectivity_tmp]
            ab == Neighbors(prev, node)
        IN  (Matches(node) /\ Cardinality(ab) = 2) =>
                /\ node \notin NodeSet(new)
                /\ ab \in new.edges
                /\ \A e \in prev.edges : node \notin e => e \in new.edges
                /\ new.edges \subseteq prev.edges \cup {ab}
                /\ Cardinality(new.edges) =
                       Cardinality(prev.edges) - 2
                           + (IF ab \in prev.edges THEN 0 ELSE 1)

C3_Witness ==
    /\ pc = "assign"
    /\ Matches(node)
    /\ Neighbors(Current, node) \in Current.edges
    /\ Neighbors(Current, node) \in heap[G_connectivity_tmp].edges

\* C4: the graph on which the loop ends has no node of degree 2 whose label
\* contains one of the substrings, and reducing it again returns it unchanged.
C4_Idempotence ==
    (pc \in AfterLoop /\ Truthy(nodes_to_reduce)) =>
        /\ \A n \in NodeSet(Current) :
               ~(Degree(Current, n) = 2 /\ Matches(n))
        /\ Reducer(Current) = Current

C4_Witness ==
    /\ pc = "plot"
    /\ Truthy(nodes_to_reduce)
    /\ iterations >= 1
    /\ \E n \in NodeSet(Current) : Degree(Current, n) = 2

\* C5: the chain A - wx - wy - B reduced with the substring "w" ends as the
\* two nodes A and B joined by one edge, whichever of wx and wy goes first.
ChainEdges ==
    { { <<"A">>, <<"w", "x">> },
      { <<"w", "x">>, <<"w", "y">> },
      { <<"w", "y">>, <<"B">> } }

IsChainRun ==
    /\ NodeSet(built) = { <<"A">>, <<"w", "x">>, <<"w", "y">>, <<"B">> }
    /\ built.edges = ChainEdges
    /\ nodes_to_reduce = Collection({ <<"w">> })

C5_Chain ==
    (IsChainRun /\ pc \in AfterLoop) =>
        /\ NodeSet(Current) = { <<"A">>, <<"B">> }
        /\ Current.edges = { { <<"A">>, <<"B">> } }
        /\ iterations = 2

C5_Witness ==
    /\ IsChainRun
    /\ pc = "plot"
    /\ <<"w", "y">> \notin NodeSet(heap[2])
    /\ <<"w", "x">> \in NodeSet(heap[2])

C7_EmptyReductionSet ==
    (nodes_to_reduce.none \/ nodes_to_reduce.items = {}) =>
        /\ iterations = 0
        /\ Len(heap) = 1
        /\ G_connectivity = 1
        /\ pc \notin { "while", "for", "remove", "assign" }
        /\ raised # NoException => import_result \notin { "", "ok" }
        /\ shown # NotShown => heap[shown.graph] = built

C7_Witness ==
    /\ nodes_to_reduce.none
    /\ pc = "done"
    /\ shown # NotShown
    /\ \E n \in NodeSet(built) : Degree(built, n) = 2

\* C8: the mutations of an iteration reach only the fresh copy: the scanned
\* graph and the graph object of the graph builder keep their nodes and
\* edges, and G_connectivity is rebound only by the assignment that ends the
\* iteration.
C8_CopyFrame ==
    [][ /\ heap[1] = built /\ heap'[1] = built
        /\ pc \in { "for", "remove" } =>
               /\ G_connectivity_tmp # G_connectivity
               /\ G_connectivity' = G_connectivity
               /\ \A i \in 1..Len(heap) :
                      i # G_connectivity_tmp => heap'[i] = heap[i]
        /\ G_connectivity' # G_connectivity =>
               /\ pc = "assign"
               /\ G_connectivity' = G_connectivity_tmp
               /\ heap' = heap
      ]_vars

C8_Witness ==
    /\ pc = "assign"
    /\ iterations >= 1
    /\ heap[G_connectivity_tmp] # Current
    /\ heap[1] = built

\* C10: two nodes of the current graph are joined by a path in it exactly
\* when they are joined by a path in the input graph.
C10_Connectivity ==
    \/ Current = built
    \/ \A u \in NodeSet(Current) :
           Reachable(Current, {u}) = Reachable(built, {u}) \cap NodeSet(Current)

C10_Witness ==
    /\ pc = "plot"
    /\ iterations >= 1
    /\ \E u, v \in NodeSet(Current) :
           /\ {u, v} \in Current.edges
           /\ {u, v} \notin built.edges
    /\ \E u, v \in NodeSet(Current) : ~Connected(Current, u, v)

\* The input graph with its nodes in the order of NodeLabels, and what the
\* reduction makes of it.
CanonicalInput ==
    [nodes |-> [i \in 1..NumNodes |-> NodeLabels[i]], edges |-> built.edges]

CanonicalResult == Reducer(CanonicalInput)

\* C9 as claimed: the final node and edge sets are those reached from the
\* same input graph under any other node order, that is, under any other
\* choice of the node removed in each iteration.
C9_OrderIndependent ==
    pc = "plot" =>
        \A p \in Perms(NodeSet(built)) :
            LET r == Reducer([nodes |-> p, edges |-> built.edges])
            IN  NodeSet(r) = NodeSet(Current) /\ r.edges = Current.edges

Components(g) == { Reachable(g, {u}) : u \in NodeSet(g) }

IsForest(g) ==
    Cardinality(g.edges) = Cardinality(NodeSet(g)) - Cardinality(Components(g))

Bijections(S, T) ==
    { f \in [S -> T] : \A t \in T : \E x \in S : f[x] = t }

\* g and h are the same graph up to a renaming of nodes that match
Isomorphic(g, h) ==
    \/ NodeSet(g) = NodeSet(h) /\ g.edges = h.edges
    \/ /\ Cardinality(NodeSet(g)) = Cardinality(NodeSet(h))
       /\ \E f \in Bijections(NodeSet(g), NodeSet(h)) :
              /\ \A n \in NodeSet(g) : ~Matches(n) => f[n] = n
              /\ h.edges = { { f[u] : u \in e } : e \in g.edges }

\* C9 amended: the final graph is the one the reduction yields for any other
\* node order up to a renaming of nodes whose label contains a substring (so
\* the other nodes and the numbers of nodes and edges agree), and it is the
\* very same node and edge set when the input graph has no cycle.  Every node
\* order of the input graph is an initial state, so agreeing with the result
\* for the order of NodeLabels is agreeing pairwise.
C9_SameUpToRenaming ==
    pc = "plot" =>
        /\ Current = Reducer(built)
        /\ Isomorphic(CanonicalResult, Current)
        /\ IsForest(built) =>
               /\ NodeSet(CanonicalResult) = NodeSet(Current)
               /\ CanonicalResult.edges = Current.edges

C9_Witness ==
    /\ pc = "plot"
    /\ iterations >= 1
    /\ NodeSet(CanonicalResult) # NodeSet(Current)
    /\ Isomorphic(CanonicalResult, Current)

====
